---- MODULE Spec2Model ----
(***************************************************************************)
(* Streaming relay of src/server.ts: one WebSocket session that fetches an *)
(* upstream server-sent-event stream, reassembles it into frames,          *)
(* classifies each frame and forwards the result to the peer.              *)
(*                                                                         *)
(* Text is modelled as a sequence of units.  A unit is one character       *)
(* ("\n", " "), one byte of a two-byte UTF-8 character, or an indivisible  *)
(* run of characters that the code only ever treats as a whole (the        *)
(* "data:" prefix, the "[DONE]" sentinel, one JSON document).              *)
(***************************************************************************)
EXTENDS Naturals, Integers, Sequences, FiniteSets, TLC

\* Largest number of blocks the upstream stream is built from.
MaxFrames == 2

NL == "\n"
SP == " "
DataPrefix == "data:"
DoneLiteral == "[DONE]"

\* The two bytes of one two-byte UTF-8 character, the character they decode
\* to, and the replacement character the decoder emits for malformed input.
LeadByte == "xC3"
ContByte == "xA9"
TwoByteChar == "e-acute"
Replacement == "U+FFFD"

Undefined == "<undefined>"

DefaultErrorMessage == <<"The OpenAPI service returned an unknown error.">>
ConfigErrorMessage ==
    <<"OPENAPI_API_KEY is not configured. Please add it to your environment.">>
FetchFailedMessage == <<"fetch failed">>
ReadFailedMessage == <<"terminated">>
AbortMessage == <<"This operation was aborted">>

(***************************************************************************)
(* JSON documents that occur in the modelled streams.  JsonDoc maps the    *)
(* text of a document to the value JSON.parse returns for it; `choices`    *)
(* holds, for an array, the delta.content of each element.                 *)
(***************************************************************************)
JsonObject(type, delta, choices, content, text, errorMessage) ==
    [type |-> type, delta |-> delta, choices |-> choices,
     content |-> content, text |-> text, errorMessage |-> errorMessage]

NotAnArray == <<Undefined, Undefined>>

JsonTexts ==
    {"{delta:a}", "{delta:b}", "{choices:c}", "{choices:[]}", "{content:d}",
     "{text:e}", "{error:boom}", "{error}", "{error:returned}", "{created}",
     "{delta:a,content:d}", "{choices:c,text:e}", "{choices:[{}],text:e}",
     "{content:d,text:e}", "{error:boom,text:e}", "{error,content:d}"}

JsonDoc(t) ==
    CASE t = "{delta:a}" ->
           JsonObject("response.output_text.delta", "a", NotAnArray,
                      Undefined, Undefined, Undefined)
      [] t = "{delta:b}" ->
           JsonObject("response.output_text.delta", "b", NotAnArray,
                      Undefined, Undefined, Undefined)
      [] t = "{choices:c}" ->
           JsonObject(Undefined, Undefined, <<"c">>, Undefined, Undefined, Undefined)
      [] t = "{choices:[]}" ->
           JsonObject(Undefined, Undefined, <<>>, Undefined, "e", Undefined)
      [] t = "{content:d}" ->
           JsonObject(Undefined, Undefined, NotAnArray, "d", Undefined, Undefined)
      [] t = "{text:e}" ->
           JsonObject(Undefined, Undefined, NotAnArray, Undefined, "e", Undefined)
      [] t = "{error:boom}" ->
           JsonObject("response.error", Undefined, NotAnArray,
                      Undefined, Undefined, "boom")
      [] t = "{error}" ->
           JsonObject("response.error", Undefined, NotAnArray,
                      Undefined, Undefined, Undefined)
      [] t = "{error:returned}" ->
           JsonObject("response.error", Undefined, NotAnArray,
                      Undefined, Undefined, "OpenAPI service returned 500")
      [] t = "{delta:a,content:d}" ->
           JsonObject("response.output_text.delta", "a", NotAnArray,
                      "d", Undefined, Undefined)
      [] t = "{choices:c,text:e}" ->
           JsonObject(Undefined, Undefined, <<"c">>, Undefined, "e", Undefined)
      [] t = "{choices:[{}],text:e}" ->
           JsonObject(Undefined, Undefined, <<Undefined>>, Undefined, "e", Undefined)
      [] t = "{content:d,text:e}" ->
           JsonObject(Undefined, Undefined, NotAnArray, "d", "e", Undefined)
      [] t = "{error:boom,text:e}" ->
           JsonObject("response.error", Undefined, NotAnArray,
                      Undefined, "e", "boom")
      [] t = "{error,content:d}" ->
           JsonObject("response.error", Undefined, NotAnArray,
                      "d", Undefined, Undefined)
      [] OTHER ->
           JsonObject("response.created", Undefined, NotAnArray,
                      Undefined, Undefined, Undefined)

\* Units of an error message that contain the text 'OpenAPI service returned'.
ContainsNeedle ==
    {"The OpenAPI service returned an unknown error.", "OpenAPI service returned 500"}

(***************************************************************************)
(* Text helpers                                                            *)
(***************************************************************************)
IsWhitespace(u) == u \in {SP, NL}

RECURSIVE TrimStart(_)
TrimStart(s) ==
    IF s # <<>> /\ IsWhitespace(Head(s)) THEN TrimStart(Tail(s)) ELSE s

RECURSIVE TrimEnd(_)
TrimEnd(s) ==
    IF s # <<>> /\ IsWhitespace(s[Len(s)])
    THEN TrimEnd(SubSeq(s, 1, Len(s) - 1))
    ELSE s

\* String.prototype.trim
Trim(s) == TrimEnd(TrimStart(s))

\* buffer.indexOf('\n\n'), 1-based; 0 when there is none
IndexOfDelimiter(s) ==
    LET hits == {i \in 1..(Len(s) - 1) : s[i] = NL /\ s[i + 1] = NL}
    IN IF hits = {} THEN 0
       ELSE CHOOSE i \in hits : \A j \in hits : i <= j

\* rawEvent.split('\n')
RECURSIVE SplitLines(_)
SplitLines(s) ==
    LET hits == {i \in 1..Len(s) : s[i] = NL}
    IN IF hits = {} THEN <<s>>
       ELSE LET i == CHOOSE k \in hits : \A j \in hits : k <= j
            IN <<SubSeq(s, 1, i - 1)>> \o SplitLines(SubSeq(s, i + 1, Len(s)))

\* lines.join('\n')
RECURSIVE JoinLines(_)
JoinLines(lines) ==
    IF lines = <<>> THEN <<>>
    ELSE IF Len(lines) = 1 THEN lines[1]
    ELSE lines[1] \o <<NL>> \o JoinLines(Tail(lines))

\* line.startsWith('data:')
StartsWithData(line) == line # <<>> /\ line[1] = DataPrefix

\* line.replace(/^data:\s*/, '')
StripDataPrefixOneSpace(line) ==
    IF StartsWithData(line)
    THEN (IF Len(line) > 1 /\ line[2] = SP THEN Tail(Tail(line)) ELSE Tail(line))
    ELSE line
StripDataPrefix(line) ==
    IF StartsWithData(line) THEN TrimStart(Tail(line)) ELSE line

RECURSIVE DataLines(_)
DataLines(lines) ==
    IF lines = <<>> THEN <<>>
    ELSE LET line == Trim(lines[1])
         IN (IF StartsWithData(line) THEN <<StripDataPrefix(line)>> ELSE <<>>)
            \o DataLines(Tail(lines))

\* the payload of one raw event
ExtractPayload(rawEvent) == JoinLines(DataLines(SplitLines(rawEvent)))

(***************************************************************************)
(* TextDecoder('utf-8')                                                    *)
(***************************************************************************)
\* decoder.decode(value, { stream: true }): `pending` says that the lead
\* byte of a two-byte character is held back from the previous call.
RECURSIVE Decode(_, _)
Decode(pending, bytes) ==
    IF bytes = <<>> THEN [text |-> <<>>, pending |-> pending]
    ELSE LET b == Head(bytes)
             emit(u, r) == [text |-> <<u>> \o r.text, pending |-> r.pending]
         IN IF pending
            THEN IF b = ContByte
                 THEN emit(TwoByteChar, Decode(FALSE, Tail(bytes)))
                 ELSE emit(Replacement, Decode(FALSE, bytes))
            ELSE IF b = LeadByte THEN Decode(TRUE, Tail(bytes))
            ELSE IF b = ContByte
                 THEN emit(Replacement, Decode(FALSE, Tail(bytes)))
                 ELSE emit(b, Decode(FALSE, Tail(bytes)))

\* decoder.decode() with no argument: the end-of-input flush
DecodeFlush(pending) == IF pending THEN <<Replacement>> ELSE <<>>

(***************************************************************************)
(* processBuffer                                                           *)
(***************************************************************************)
NoError == [name |-> "none", message |-> <<>>]

\* JSON.parse(payload): white space around the one document is allowed
JsonParseTrimmed(core) ==
    IF Len(core) = 1 /\ core[1] \in JsonTexts
    THEN [status |-> "object", value |-> JsonDoc(core[1])]
    ELSE IF Len(core) = 1 /\ core[1] = "null"
    THEN [status |-> "null", value |-> JsonDoc("{created}")]
    ELSE [status |-> "SyntaxError", value |-> JsonDoc("{created}")]

JsonParse(payload) == JsonParseTrimmed(Trim(payload))

IsString(v) == v # Undefined

\* payload === '[DONE]'
IsSentinel(payload) == payload = <<DoneLiteral>>

\* error.message.includes('OpenAPI service returned')
RethrowsAlways(error) == TRUE
Rethrows(error) == \E i \in DOMAIN error.message : error.message[i] \in ContainsNeedle

\* Results of the try block: a chunk handed to onChunk, an error thrown
\* inside the block, or nothing.
Delivered(chunk) == [chunk |-> <<chunk>>, caught |-> NoError]
Caught(name, message) ==
    [chunk |-> <<>>, caught |-> [name |-> name, message |-> message]]
IgnoredFails ==
    [chunk |-> <<>>, caught |-> [name |-> "Error", message |-> DefaultErrorMessage]]
Ignored == [chunk |-> <<>>, caught |-> NoError]

\* the branches on the parsed value, in the order of the code
TryParsedFieldsFirst(parsed) ==
    IF IsString(parsed.content)
    THEN Delivered(parsed.content)
    ELSE IF IsString(parsed.text)
    THEN Delivered(parsed.text)
    ELSE IF parsed.type = "response.output_text.delta" /\ IsString(parsed.delta)
    THEN Delivered(parsed.delta)
    ELSE IF parsed.choices # NotAnArray /\ Len(parsed.choices) > 0
    THEN IF IsString(parsed.choices[1]) /\ parsed.choices[1] # ""
         THEN Delivered(parsed.choices[1])
         ELSE Ignored
    ELSE IF parsed.type = "response.error"
    THEN Caught("Error", IF parsed.errorMessage # Undefined
                         THEN <<parsed.errorMessage>>
                         ELSE DefaultErrorMessage)
    ELSE Ignored
TryParsed(parsed) ==
    IF parsed.type = "response.output_text.delta" /\ IsString(parsed.delta)
    THEN Delivered(parsed.delta)
    ELSE IF parsed.choices # NotAnArray /\ Len(parsed.choices) > 0
    THEN IF IsString(parsed.choices[1]) /\ parsed.choices[1] # ""
         THEN Delivered(parsed.choices[1])
         ELSE Ignored
    ELSE IF IsString(parsed.content)
    THEN Delivered(parsed.content)
    ELSE IF IsString(parsed.text)
    THEN Delivered(parsed.text)
    ELSE IF parsed.type = "response.error"
    THEN Caught("Error", IF parsed.errorMessage # Undefined
                         THEN <<parsed.errorMessage>>
                         ELSE DefaultErrorMessage)
    ELSE Ignored

\* JSON.parse throws a SyntaxError; reading a property of null a TypeError
TryJson(p) ==
    IF p.status = "SyntaxError"
    THEN Caught("SyntaxError", <<"Unexpected token">>)
    ELSE IF p.status = "null"
    THEN Caught("TypeError", <<"Cannot read properties of null">>)
    ELSE TryParsed(p.value)

TryBlock(payload) == TryJson(JsonParse(payload))

\* the catch block: the caught error escapes processBuffer or is dropped
CatchBlock(t) ==
    IF t.caught # NoError /\ Rethrows(t.caught)
    THEN [chunk |-> t.chunk, thrown |-> TRUE, error |-> t.caught]
    ELSE [chunk |-> t.chunk, thrown |-> FALSE, error |-> NoError]

\* try { ... } catch: what one payload does to the session
Classify(payload) == CatchBlock(TryBlock(payload))

(***************************************************************************)
(* processBuffer on a buffer: what is left of the buffer, the completed    *)
(* flag, the chunks handed to onChunk in order, the error that escapes,    *)
(* the raw events extracted and the payloads that were classified.         *)
(***************************************************************************)
RECURSIVE ProcessBuffer(_)

\* no delimiter is left: the loop ends
LoopEnds(buf) ==
    [buffer |-> buf, completed |-> FALSE, chunks |-> <<>>, thrown |-> FALSE,
     error |-> NoError, frames |-> <<>>, classified |-> <<>>]

\* completed = true; return
SentinelSeenContinues(rawEvent, payload, rest) ==
    [ProcessBuffer(rest) EXCEPT !.completed = TRUE,
                                !.frames = <<rawEvent>> \o @,
                                !.classified = <<payload>> \o @]
SentinelSeen(rawEvent, payload, rest) ==
    [buffer |-> rest, completed |-> TRUE, chunks |-> <<>>, thrown |-> FALSE,
     error |-> NoError, frames |-> <<rawEvent>>, classified |-> <<payload>>]

\* if (!payload) continue
SkippedEndsLoop(rawEvent, r) == [LoopEnds(r.buffer) EXCEPT !.frames = <<rawEvent>>]
Skipped(rawEvent, r) == [r EXCEPT !.frames = <<rawEvent>> \o @]

\* the payload was classified: the error escapes, or the loop goes on
Classified(rawEvent, payload, c, rest) ==
    IF c.thrown
    THEN [buffer |-> rest, completed |-> FALSE, chunks |-> c.chunk,
          thrown |-> TRUE, error |-> c.error,
          frames |-> <<rawEvent>>, classified |-> <<payload>>]
    ELSE [ProcessBuffer(rest) EXCEPT !.chunks = c.chunk \o @,
                                     !.frames = <<rawEvent>> \o @,
                                     !.classified = <<payload>> \o @]

\* one iteration of the loop, after the payload of the raw event is known
OnPayload(rawEvent, payload, rest) ==
    IF payload = <<>> THEN Skipped(rawEvent, ProcessBuffer(rest))
    ELSE IF IsSentinel(payload) THEN SentinelSeen(rawEvent, payload, rest)
    ELSE Classified(rawEvent, payload, Classify(payload), rest)

\* const rawEvent = buffer.slice(0, newlineIndex);
\* buffer = buffer.slice(newlineIndex + 2);
OnEvent(rawEvent, rest) == OnPayload(rawEvent, ExtractPayload(rawEvent), rest)

\* while ((newlineIndex = buffer.indexOf('\n\n')) !== -1)
OnIndexOffByOne(buf, newlineIndex) ==
    IF newlineIndex = 0 THEN LoopEnds(buf)
    ELSE OnEvent(SubSeq(buf, 1, newlineIndex - 1),
                 SubSeq(buf, newlineIndex + 1, Len(buf)))
OnIndex(buf, newlineIndex) ==
    IF newlineIndex = 0 THEN LoopEnds(buf)
    ELSE OnEvent(SubSeq(buf, 1, newlineIndex - 1),
                 SubSeq(buf, newlineIndex + 2, Len(buf)))

ProcessBuffer(buf) == OnIndex(buf, IndexOfDelimiter(buf))

(***************************************************************************)
(* Upstream streams.  A stream is a list of blocks separated by the        *)
(* blank-line delimiter; the last block may lack its delimiter.  Each      *)
(* block name stands for the text of one server-sent event; BlockKind says *)
(* what that event is on the wire, independently of how processBuffer      *)
(* treats it.                                                              *)
(***************************************************************************)
BlockNames ==
    {"delta_a", "delta_b", "choices", "content", "text", "sentinel",
     "error_msg", "error_default", "error_returned", "malformed",
     "malformed_utf8", "comment", "unknown"}

BlockText(b) ==
    CASE b = "delta_a" -> <<DataPrefix, SP, "{delta:a}">>
      [] b = "delta_b" -> <<DataPrefix, "{delta:b}">>
      [] b = "choices" -> <<DataPrefix, SP, "{choices:c}">>
      [] b = "content" -> <<DataPrefix, SP, "{content:d}">>
      [] b = "text" -> <<DataPrefix, SP, "{text:e}">>
      [] b = "sentinel" -> <<DataPrefix, SP, DoneLiteral>>
      [] b = "error_msg" -> <<DataPrefix, SP, "{error:boom}">>
      [] b = "error_default" -> <<DataPrefix, SP, "{error}">>
      [] b = "error_returned" -> <<DataPrefix, SP, "{error:returned}">>
      [] b = "malformed" -> <<DataPrefix, SP, "{oops">>
      [] b = "malformed_utf8" -> <<DataPrefix, SP, LeadByte, ContByte, LeadByte>>
      [] b = "comment" -> <<": keep-alive">>
      [] OTHER -> <<DataPrefix, SP, "{created}">>

BlockKind(b) ==
    CASE b \in {"delta_a", "delta_b", "choices", "content", "text"} -> "delta"
      [] b = "sentinel" -> "sentinel"
      [] b \in {"error_msg", "error_default", "error_returned"} -> "error"
      [] b \in {"malformed", "malformed_utf8"} -> "malformed"
      [] b = "comment" -> "comment"
      [] OTHER -> "unknown"

\* the text a delta block carries
BlockDelta(b) ==
    CASE b = "delta_a" -> "a"
      [] b = "delta_b" -> "b"
      [] b = "choices" -> "c"
      [] b = "content" -> "d"
      [] b = "text" -> "e"
      [] OTHER -> Undefined

\* the message an explicit-error block embeds, or none
BlockErrorMessage(b) ==
    CASE b = "error_msg" -> <<"boom">>
      [] b = "error_returned" -> <<"OpenAPI service returned 500">>
      [] OTHER -> <<>>

Scripts == UNION {[1..n -> BlockNames] : n \in 0..MaxFrames}

RECURSIVE StreamBytes(_, _)
StreamBytes(blocks, lastDelimited) ==
    IF blocks = <<>> THEN <<>>
    ELSE BlockText(Head(blocks))
         \o (IF Len(blocks) > 1 \/ lastDelimited THEN <<NL, NL>> ELSE <<>>)
         \o StreamBytes(Tail(blocks), lastDelimited)

Responses ==
    {[ok |-> TRUE, body |-> TRUE, status |-> "200"],
     [ok |-> FALSE, body |-> TRUE, status |-> "429"],
     [ok |-> TRUE, body |-> FALSE, status |-> "204"],
     [ok |-> FALSE, body |-> FALSE, status |-> "502"]}

NoResponse == [ok |-> FALSE, body |-> FALSE, status |-> "none"]

(***************************************************************************)
(* State of one session                                                    *)
(***************************************************************************)
VARIABLES
    apiKey,          \* process.env.OPENAPI_API_KEY is set
    script,          \* the blocks the upstream stream is made of
    delimited,       \* the last block ends with the delimiter
    upstream,        \* the bytes of the upstream body
    pos,             \* number of upstream bytes already returned by read()
    response,        \* the response fetch resolved with
    pc,              \* where streamPersonalWebsite is suspended
    outcome,         \* state of the promise streamPersonalWebsite returned
    failure,         \* the error the promise rejected with
    decoderPending,  \* TextDecoder holds back a lead byte
    buffer,          \* let buffer
    completed,       \* let completed
    eof,             \* read() has returned done
    fragmented,      \* some read() returned less than the whole body
    readyState,      \* socket.readyState
    aborted,         \* abortController.signal.aborted
    events,          \* every payload handed to sendPayload, in order
    sent,            \* every payload transmitted by socket.send, in order
    frames,          \* every raw event extracted from the buffer, in order
    classified,      \* every non-empty payload that reached classification
    readerLocked,    \* the reader got from response.body holds its lock
    pendingReads     \* reader.read() promises not settled yet

\* A second connection has its own handler call, and so its own copies of
\* everything above.  The variables above hold the session whose code runs
\* next; the other one waits in `parked`.
VARIABLES
    active,          \* which connection the variables above belong to
    parked           \* the state of the other connection, if there is one

\* The page in the browser: the script of DEFAULT_CONTENT.
VARIABLES
    wire,            \* messages that arrived at the browser, not yet dispatched
    clientSocket,    \* socket.readyState in the browser
    statusText,      \* status.textContent
    innerHTML,       \* the markup last assigned to target.innerHTML
    pageBuffer,      \* let buffer of the script
    handled          \* every message the message listener was called with

\* processBuffer on its own, and the link between the socket and the page.
VARIABLES
    rawText,         \* the text put in the buffer before processBuffer runs
    processed,       \* what processBuffer made of rawText
    extracted,       \* the payload extracted from each raw event, in order
    arrived          \* how many of the transmitted messages reached the page

Session ==
    <<apiKey, script, delimited, upstream, pos, response, pc, outcome, failure,
      decoderPending, buffer, completed, eof, fragmented, readyState, aborted,
      events, sent, frames, classified, readerLocked, pendingReads>>
Page == <<wire, clientSocket, statusText, innerHTML, pageBuffer, handled>>
Aside == <<rawText, processed, extracted, arrived>>

vars ==
    <<apiKey, script, delimited, upstream, pos, response, pc, outcome, failure,
      decoderPending, buffer, completed, eof, fragmented, readyState, aborted,
      events, sent, frames, classified, readerLocked, pendingReads,
      active, parked, wire, clientSocket, statusText, innerHTML, pageBuffer, handled,
      rawText, processed, extracted, arrived>>

\* <p id="status">Establishing a live connection&hellip;</p>
\* <div id="content"></div>, new WebSocket(socketUrl), let buffer = ''
StatusConnecting == "Establishing a live connection..."
PageInit ==
    /\ clientSocket = "CONNECTING"
    /\ statusText = StatusConnecting
    /\ innerHTML = <<>>
    /\ pageBuffer = <<>>
    /\ handled = <<>>

\* processBuffer has not been run on its own, nothing is on its way
NotProcessed == [buffer |-> <<"<not run>">>]
AsideInit ==
    /\ rawText = <<>>
    /\ processed = NotProcessed
    /\ extracted = <<>>
    /\ arrived = 0

\* there is no other connection
NoSession == [pc |-> "none"]
Alone == active = 1 /\ parked = NoSession

SessionInit ==
    /\ apiKey \in BOOLEAN
    /\ script \in Scripts
    /\ delimited \in (IF script = <<>> THEN {TRUE} ELSE BOOLEAN)
    /\ upstream = StreamBytes(script, delimited)
    /\ pos = 0
    /\ response = NoResponse
    /\ pc = "idle"
    /\ outcome = "pending"
    /\ failure = NoError
    /\ decoderPending = FALSE
    /\ buffer = <<>>
    /\ completed = FALSE
    /\ eof = FALSE
    /\ fragmented = FALSE
    /\ readyState = "OPEN"
    /\ aborted = FALSE
    /\ readerLocked = FALSE
    /\ pendingReads = 0
    /\ events = <<>>
    /\ sent = <<>>
    /\ frames = <<>>
    /\ classified = <<>>

\* one connection, and a page that receives nothing
Init ==
    /\ SessionInit
    /\ Alone
    /\ PageInit
    /\ wire = <<>>
    /\ AsideInit

(***************************************************************************)
(* The connection handler's helpers                                        *)
(***************************************************************************)
\* sendPayload applied to a run of payloads while readyState does not change
SendPayloadUnguarded(transmitted, payloads) == transmitted \o payloads
SendPayloadUnlessClosed(transmitted, payloads) ==
    IF readyState # "CLOSED" THEN transmitted \o payloads ELSE transmitted
SendPayload(transmitted, payloads) ==
    IF readyState = "OPEN" THEN transmitted \o payloads ELSE transmitted

\* onChunk for each chunk processBuffer produced
ChunkPayloadsRenamed(chunks) ==
    [i \in DOMAIN chunks |-> [type |-> "chunk", text |-> chunks[i]]]
ChunkPayloads(chunks) ==
    [i \in DOMAIN chunks |-> [type |-> "chunk", data |-> chunks[i]]]

\* .then(() => sendPayload({ type: 'done' }))
ThenHandler == <<[type |-> "done"]>>

\* .catch((error) => ...)
CatchHandlerThenDone(error) ==
    IF error.name = "AbortError" THEN <<>>
    ELSE <<[type |-> "error", message |-> error.message], [type |-> "done"]>>
CatchHandler(error) ==
    IF error.name = "AbortError" THEN <<>>
    ELSE <<[type |-> "error", message |-> error.message]>>

\* if (!response.ok || !response.body)
RequestFailedIgnoringBody(r) == ~r.ok
RequestFailed(r) == ~r.ok \/ ~r.body

\* `OpenAPI request failed with status ${response.status}: ${errorText}`.trim()
RequestFailedMessage(status, errorText) ==
    Trim(<<"OpenAPI request failed with status ", status, ":", SP>> \o errorText)

\* buffer += decoded
AppendDecodedReplacing(buf, decoded) == decoded
AppendDecoded(buf, decoded) == buf \o decoded

\* What follows one processBuffer call in the read loop: the chunks are sent,
\* then either the error propagates to the catch handler, or the loop ends
\* and the then handler runs, or the next read is awaited.
AfterProcessEndFails(r, atEnd) ==
    IF r.thrown
    THEN [pc |-> "settled", outcome |-> "rejected", failure |-> r.error,
          payloads |-> ChunkPayloads(r.chunks) \o CatchHandler(r.error)]
    ELSE IF r.completed
    THEN [pc |-> "settled", outcome |-> "resolved", failure |-> NoError,
          payloads |-> ChunkPayloads(r.chunks) \o ThenHandler]
    ELSE IF atEnd
    THEN [pc |-> "settled", outcome |-> "rejected",
          failure |-> [name |-> "Error", message |-> ReadFailedMessage],
          payloads |-> ChunkPayloads(r.chunks)
                       \o CatchHandler([name |-> "Error", message |-> ReadFailedMessage])]
    ELSE [pc |-> "reading", outcome |-> "pending", failure |-> NoError,
          payloads |-> ChunkPayloads(r.chunks)]
AfterProcess(r, atEnd) ==
    IF r.thrown
    THEN [pc |-> "settled", outcome |-> "rejected", failure |-> r.error,
          payloads |-> ChunkPayloads(r.chunks) \o CatchHandler(r.error)]
    ELSE IF r.completed \/ atEnd
    THEN [pc |-> "settled", outcome |-> "resolved", failure |-> NoError,
          payloads |-> ChunkPayloads(r.chunks) \o ThenHandler]
    ELSE [pc |-> "reading", outcome |-> "pending", failure |-> NoError,
          payloads |-> ChunkPayloads(r.chunks)]

\* What no step of the handler changes: what it was given, the state of
\* the other connection and the page in the browser.
Input == <<apiKey, script, delimited, upstream, active, parked, Page, Aside>>
StreamState ==
    <<pos, decoderPending, buffer, completed, eof, fragmented, frames, classified>>
SocketState == <<readyState, aborted>>
ReaderState == <<readerLocked, pendingReads>>

\* if (!apiKey) { ... throw new Error(...) }
MissingKeyIgnored == FALSE
MissingKey == ~apiKey

\* finally { reader.releaseLock(); }: the lock is held exactly while the
\* function is still inside its try block.
LockedAfterLeak(nextPc) == TRUE
LockedAfter(nextPc) == nextPc = "reading"

\* const { value, done } = await reader.read(): the awaited read has settled,
\* and the loop issues the next one only when it goes round again.
ReadsAfterPrefetch(n, nextPc) == n + 1
ReadsAfter(n, nextPc) == (n - 1) + (IF nextPc = "reading" THEN 1 ELSE 0)

\* the promise rejects with `error` and the catch handler runs
Reject(error) ==
    /\ pc' = "settled"
    /\ outcome' = "rejected"
    /\ failure' = error
    /\ events' = events \o CatchHandler(error)
    /\ sent' = SendPayload(sent, CatchHandler(error))

\* the promise resolves and the then handler runs
Resolve ==
    /\ pc' = "settled"
    /\ outcome' = "resolved"
    /\ failure' = NoError
    /\ events' = events \o ThenHandler
    /\ sent' = SendPayload(sent, ThenHandler)

\* catch (error) { if (error.name === 'AbortError') return; throw error; }
IsAbortErrorNever(error) == FALSE
IsAbortError(error) == error.name = "AbortError"

(***************************************************************************)
(* Actions                                                                 *)
(***************************************************************************)
\* wss.on('connection'): the handler runs streamPersonalWebsite up to its
\* first await; without a key the promise rejects at once.
Connection ==
    /\ pc = "idle"
    /\ IF MissingKey
       THEN Reject([name |-> "Error", message |-> ConfigErrorMessage])
       ELSE /\ pc' = "fetching"
            /\ UNCHANGED <<outcome, failure, events, sent>>
    /\ UNCHANGED <<Input, StreamState, SocketState, ReaderState, response>>

\* await fetch(...) resolves with a response
FetchRespondsWithoutSignal ==
    /\ pc = "fetching"
    /\ \E r \in Responses :
          /\ response' = r
          /\ pc' = IF RequestFailed(r) THEN "errorText" ELSE "reading"
          /\ readerLocked' = ~RequestFailed(r)
          /\ pendingReads' = IF RequestFailed(r) THEN 0 ELSE 1
    /\ UNCHANGED <<Input, StreamState, SocketState, outcome, failure, events, sent>>
FetchResponds ==
    /\ pc = "fetching"
    /\ ~aborted
    /\ \E r \in Responses :
          /\ response' = r
          /\ pc' = IF RequestFailed(r) THEN "errorText" ELSE "reading"
          /\ readerLocked' = ~RequestFailed(r)
          /\ pendingReads' = IF RequestFailed(r) THEN 0 ELSE 1
    /\ UNCHANGED <<Input, StreamState, SocketState, outcome, failure, events, sent>>

\* await fetch(...) rejects because the request could not be made
FetchFails ==
    /\ pc = "fetching"
    /\ ~aborted
    /\ Reject([name |-> "TypeError", message |-> FetchFailedMessage])
    /\ UNCHANGED <<Input, StreamState, SocketState, ReaderState, response>>

\* await fetch(...) rejects because the signal was aborted
FetchAborted ==
    /\ pc = "fetching"
    /\ aborted
    /\ Reject([name |-> "AbortError", message |-> AbortMessage])
    /\ UNCHANGED <<Input, StreamState, SocketState, ReaderState, response>>

\* await response.text().catch(() => '') settles, then the throw
ErrorTextSettles ==
    /\ pc = "errorText"
    /\ \E errorText \in (IF response.body THEN {<<"rate limited">>, <<>>} ELSE {<<>>}) :
          Reject([name |-> "Error",
                  message |-> RequestFailedMessage(response.status, errorText)])
    /\ UNCHANGED <<Input, StreamState, SocketState, ReaderState, response>>

\* The loop body after processBuffer returned r: the session moves as
\* AfterProcess says and the payloads go through sendPayload.
Commit(r, a) ==
    /\ buffer' = r.buffer
    /\ completed' = r.completed
    /\ frames' = frames \o r.frames
    /\ classified' = classified \o r.classified
    /\ pc' = a.pc
    /\ outcome' = a.outcome
    /\ failure' = a.failure
    /\ events' = events \o a.payloads
    /\ sent' = SendPayload(sent, a.payloads)
    /\ readerLocked' = LockedAfter(a.pc)
    /\ pendingReads' = ReadsAfter(pendingReads, a.pc)

Process(r, atEnd) == Commit(r, AfterProcess(r, atEnd))

\* buffer += decoded; processBuffer()
Feed(decoded, atEnd) == Process(ProcessBuffer(AppendDecoded(buffer, decoded)), atEnd)

\* const decoded = decoder.decode(value, { stream: true })
Receive(d) ==
    /\ decoderPending' = d.pending
    /\ Feed(d.text, FALSE)

\* await reader.read() resolves with the next k bytes of the body
ReadChunk ==
    /\ pc = "reading"
    /\ ~aborted
    /\ pos < Len(upstream)
    /\ \E k \in 1..(Len(upstream) - pos) :
          /\ pos' = pos + k
          /\ fragmented' = (fragmented \/ k < Len(upstream))
          /\ Receive(Decode(decoderPending, SubSeq(upstream, pos + 1, pos + k)))
    /\ UNCHANGED <<Input, SocketState, response, eof>>

\* await reader.read() resolves with done: the loop breaks and the rest of
\* the decoder's input is flushed into the buffer
ReadEnd ==
    /\ pc = "reading"
    /\ ~aborted
    /\ pos = Len(upstream)
    /\ eof' = TRUE
    /\ decoderPending' = FALSE
    /\ Feed(DecodeFlush(decoderPending), TRUE)
    /\ UNCHANGED <<Input, SocketState, response, pos, fragmented>>

\* await reader.read() rejects with `error`
ReadRejects(error) ==
    /\ IF IsAbortError(error) THEN Resolve ELSE Reject(error)
    /\ readerLocked' = LockedAfter("settled")
    /\ pendingReads' = ReadsAfter(pendingReads, "settled")
    /\ UNCHANGED <<Input, StreamState, SocketState, response>>

\* the upstream connection breaks while the body is being read
ReadFails ==
    /\ pc = "reading"
    /\ ~aborted
    /\ ReadRejects([name |-> "TypeError", message |-> ReadFailedMessage])

\* the pending read is rejected because the signal was aborted
ReadAborted ==
    /\ pc = "reading"
    /\ aborted
    /\ ReadRejects([name |-> "AbortError", message |-> AbortMessage])

\* the peer starts the closing handshake: readyState leaves OPEN
PeerClosing ==
    /\ pc # "idle"
    /\ readyState = "OPEN"
    /\ readyState' = "CLOSING"
    /\ UNCHANGED <<Input, StreamState, ReaderState, response, pc, outcome,
                   failure, aborted, events, sent>>

SocketCloseWithoutAbort ==
    /\ pc # "idle"
    /\ readyState \in {"OPEN", "CLOSING"}
    /\ readyState' = "CLOSED"
    /\ UNCHANGED <<Input, StreamState, ReaderState, response, pc, outcome,
                   failure, aborted, events, sent>>

\* socket.on('close'): the socket is closed and the handler aborts
SocketClose ==
    /\ pc # "idle"
    /\ readyState \in {"OPEN", "CLOSING"}
    /\ readyState' = "CLOSED"
    /\ aborted' = TRUE
    /\ UNCHANGED <<Input, StreamState, ReaderState, response, pc, outcome,
                   failure, events, sent>>

Next ==
    \/ Connection
    \/ FetchResponds
    \/ FetchFails
    \/ FetchAborted
    \/ ErrorTextSettles
    \/ ReadChunk
    \/ ReadEnd
    \/ ReadFails
    \/ ReadAborted
    \/ PeerClosing
    \/ SocketClose

Spec == Init /\ [][Next]_vars

\* What the runtime guarantees: the connection handler runs, and an awaited
\* promise that can settle without the upstream sending anything more does
\* settle (the text of an error response that has arrived, the rejection of
\* an aborted request or read).  Whether the upstream answers, sends the
\* next bytes or ends is up to the upstream.
Fairness ==
    /\ WF_vars(Connection)
    /\ WF_vars(ErrorTextSettles)
    /\ WF_vars(FetchAborted)
    /\ WF_vars(ReadAborted)

SpecLive == Init /\ [][Next]_vars /\ Fairness

(***************************************************************************)
(* Two connections at once.  wss.on('connection') runs once per socket,    *)
(* and everything a session works with (abortController, sendPayload, and  *)
(* in streamPersonalWebsite reader, decoder, buffer, completed) is         *)
(* declared inside that call; the module itself declares no variable that  *)
(* is assigned after start-up.  Between two awaits only one handler runs:  *)
(* Switch is the event loop turning from one connection to the other.      *)
(***************************************************************************)
\* the state of the connection that is running
Saved ==
    [apiKey |-> apiKey,
     script |-> script,
     delimited |-> delimited,
     upstream |-> upstream,
     pos |-> pos,
     response |-> response,
     pc |-> pc,
     outcome |-> outcome,
     failure |-> failure,
     decoderPending |-> decoderPending,
     buffer |-> buffer,
     completed |-> completed,
     eof |-> eof,
     fragmented |-> fragmented,
     readyState |-> readyState,
     aborted |-> aborted,
     events |-> events,
     sent |-> sent,
     frames |-> frames,
     classified |-> classified,
     readerLocked |-> readerLocked,
     pendingReads |-> pendingReads]

\* the state of a connection the server has just accepted
FreshSession(scr) ==
    [apiKey |-> TRUE,
     script |-> scr,
     delimited |-> TRUE,
     upstream |-> StreamBytes(scr, TRUE),
     pos |-> 0,
     response |-> NoResponse,
     pc |-> "idle",
     outcome |-> "pending",
     failure |-> NoError,
     decoderPending |-> FALSE,
     buffer |-> <<>>,
     completed |-> FALSE,
     eof |-> FALSE,
     fragmented |-> FALSE,
     readyState |-> "OPEN",
     aborted |-> FALSE,
     events |-> <<>>,
     sent |-> <<>>,
     frames |-> <<>>,
     classified |-> <<>>,
     readerLocked |-> FALSE,
     pendingReads |-> 0]

\* the variables get the state s back, the buffer being buf
Resume(s, buf) ==
    /\ apiKey' = s.apiKey
    /\ script' = s.script
    /\ delimited' = s.delimited
    /\ upstream' = s.upstream
    /\ pos' = s.pos
    /\ response' = s.response
    /\ pc' = s.pc
    /\ outcome' = s.outcome
    /\ failure' = s.failure
    /\ decoderPending' = s.decoderPending
    /\ buffer' = buf
    /\ completed' = s.completed
    /\ eof' = s.eof
    /\ fragmented' = s.fragmented
    /\ readyState' = s.readyState
    /\ aborted' = s.aborted
    /\ events' = s.events
    /\ sent' = s.sent
    /\ frames' = s.frames
    /\ classified' = s.classified
    /\ readerLocked' = s.readerLocked
    /\ pendingReads' = s.pendingReads

\* the streams of the two connections
TwoScripts ==
    {<<"delta_a", "sentinel">>, <<"delta_b", "error_default">>, <<"content">>}

SwitchSharingBuffer ==
    /\ parked # NoSession
    /\ active' = IF active = 1 THEN 2 ELSE 1
    /\ parked' = Saved
    /\ Resume(parked, buffer)
    /\ UNCHANGED <<Page, Aside>>
Switch ==
    /\ parked # NoSession
    /\ active' = IF active = 1 THEN 2 ELSE 1
    /\ parked' = Saved
    /\ Resume(parked, parked.buffer)
    /\ UNCHANGED <<Page, Aside>>

InitTwo ==
    /\ SessionInit
    /\ script \in TwoScripts
    /\ delimited
    /\ active = 1
    /\ parked \in {FreshSession(scr) : scr \in TwoScripts}
    /\ PageInit
    /\ wire = <<>>
    /\ AsideInit

NextTwo ==
    \/ Next
    \/ Switch

SpecTwo == InitTwo /\ [][NextTwo]_vars

(***************************************************************************)
(* The page in the browser.  Text is a sequence of characters; a message   *)
(* on the wire is given by whether JSON.parse accepts it and by the type,  *)
(* data and message properties of the object it yields.                    *)
(***************************************************************************)
MaxMessages == 3

StatusBuilding == "Building the page&hellip;"
StatusAdding == "Adding sections&hellip;"
StatusReady == "James Paterson's personal website is ready."
StatusFailed == "Unable to build the website."
StatusClosedEmpty == "Connection closed before any content was received."
StatusNetworkError == "A network error occurred."

\* typeof x === 'string' fails for x
NotAString == <<"<not a string>">>
IsStringValue(x) == x # NotAString

PageMessages ==
    {[parses |-> TRUE, type |-> "chunk", data |-> <<"a">>, message |-> NotAString],
     [parses |-> TRUE, type |-> "chunk", data |-> <<"<", "b", ">">>, message |-> NotAString],
     [parses |-> TRUE, type |-> "chunk", data |-> <<>>, message |-> NotAString],
     [parses |-> TRUE, type |-> "chunk", data |-> NotAString, message |-> NotAString],
     [parses |-> TRUE, type |-> "done", data |-> NotAString, message |-> NotAString],
     [parses |-> TRUE, type |-> "error", data |-> NotAString, message |-> <<"<", "boom", "&">>],
     [parses |-> TRUE, type |-> "error", data |-> NotAString, message |-> NotAString],
     [parses |-> TRUE, type |-> "ping", data |-> NotAString, message |-> NotAString],
     [parses |-> FALSE, type |-> "none", data |-> NotAString, message |-> NotAString]}

WireSequences == UNION {[1..n -> PageMessages] : n \in 0..MaxMessages}

\* const escapeHtml = (value) => value.replace(/[&<>"']/g, ...)
EscapeCharacter(character) ==
    CASE character = "&" -> "&amp;"
      [] character = "<" -> "&lt;"
      [] character = ">" -> "&gt;"
      [] character = "\"" -> "&quot;"
      [] character = "'" -> "&#39;"
      [] OTHER -> character
EscapeHtml(value) == [i \in DOMAIN value |-> EscapeCharacter(value[i])]

\* const errorMarkup = '<pre style="...">' + escapeHtml(payload.message) + '</pre>'
ErrorMarkup(message) == <<"<pre style>">> \o EscapeHtml(message) \o <<"</pre>">>

\* buffer += payload.data
PageAppendReplacing(buf, data) == data
PageAppend(buf, data) == buf \o data

\* the message listener: what the page is after the message m
OnMessageNeverCloses(m) ==
    IF m.parses /\ m.type = "chunk" /\ IsStringValue(m.data)
    THEN [buffer |-> PageAppend(pageBuffer, m.data),
          innerHTML |-> PageAppend(pageBuffer, m.data),
          statusText |-> StatusAdding, closes |-> FALSE]
    ELSE IF m.parses /\ m.type = "done"
    THEN [buffer |-> pageBuffer, innerHTML |-> innerHTML,
          statusText |-> StatusReady, closes |-> FALSE]
    ELSE IF m.parses /\ m.type = "error" /\ IsStringValue(m.message)
    THEN [buffer |-> pageBuffer, innerHTML |-> ErrorMarkup(m.message),
          statusText |-> StatusFailed, closes |-> FALSE]
    ELSE [buffer |-> pageBuffer, innerHTML |-> innerHTML,
          statusText |-> statusText, closes |-> FALSE]
OnChunk(buf) ==
    [buffer |-> buf, innerHTML |-> buf, statusText |-> StatusAdding, closes |-> FALSE]
OnMessage(m) ==
    IF m.parses /\ m.type = "chunk" /\ IsStringValue(m.data)
    THEN OnChunk(PageAppend(pageBuffer, m.data))
    ELSE IF m.parses /\ m.type = "done"
    THEN [buffer |-> pageBuffer, innerHTML |-> innerHTML,
          statusText |-> StatusReady, closes |-> TRUE]
    ELSE IF m.parses /\ m.type = "error" /\ IsStringValue(m.message)
    THEN [buffer |-> pageBuffer, innerHTML |-> ErrorMarkup(m.message),
          statusText |-> StatusFailed, closes |-> TRUE]
    ELSE [buffer |-> pageBuffer, innerHTML |-> innerHTML,
          statusText |-> statusText, closes |-> FALSE]

Dispatch(m, a) ==
    /\ wire' = Tail(wire)
    /\ handled' = Append(handled, m)
    /\ pageBuffer' = a.buffer
    /\ innerHTML' = a.innerHTML
    /\ statusText' = a.statusText
    /\ clientSocket' = IF a.closes THEN "CLOSING" ELSE clientSocket

\* socket.addEventListener('open', ...)
PageOpen ==
    /\ clientSocket = "CONNECTING"
    /\ clientSocket' = "OPEN"
    /\ statusText' = StatusBuilding
    /\ UNCHANGED <<Session, active, parked, Aside, wire, innerHTML, pageBuffer, handled>>

\* socket.addEventListener('message', ...): messages are dispatched only
\* while the socket is open
PageMessage ==
    /\ clientSocket = "OPEN"
    /\ wire # <<>>
    /\ Dispatch(Head(wire), OnMessage(Head(wire)))
    /\ UNCHANGED <<Session, active, parked, Aside>>

\* socket.addEventListener('close', ...): the connection is closed, by the
\* server, or after socket.close() or an error
PageClose ==
    /\ clientSocket \in {"OPEN", "CLOSING"}
    /\ clientSocket' = "CLOSED"
    /\ statusText' = IF pageBuffer = <<>> THEN StatusClosedEmpty ELSE statusText
    /\ UNCHANGED <<Session, active, parked, Aside, wire, innerHTML, pageBuffer, handled>>

\* socket.addEventListener('error', ...): the connection fails; the close
\* event follows
PageError ==
    /\ clientSocket \in {"CONNECTING", "OPEN"}
    /\ clientSocket' = "CLOSING"
    /\ statusText' = StatusNetworkError
    /\ UNCHANGED <<Session, active, parked, Aside, wire, innerHTML, pageBuffer, handled>>

\* the page alone, with the messages that will arrive
InitPage ==
    /\ SessionInit
    /\ apiKey
    /\ script = <<>>
    /\ Alone
    /\ PageInit
    /\ wire \in WireSequences
    /\ AsideInit

NextPage ==
    \/ PageOpen
    \/ PageMessage
    \/ PageClose
    \/ PageError

SpecPage == InitPage /\ [][NextPage]_vars

(***************************************************************************)
(* The session and the page together.  What socket.send transmits is the   *)
(* JSON text of the payload; it reaches the page in order and the message  *)
(* listener parses it.  The server never closes the socket itself: its     *)
(* socket leaves OPEN only after the page's socket has.                    *)
(***************************************************************************)
\* JSON.parse(JSON.stringify(payload))
ToPage(m) ==
    [parses |-> TRUE,
     type |-> m.type,
     data |-> IF m.type = "chunk" THEN <<m.data>> ELSE NotAString,
     message |-> IF m.type = "error" THEN m.message ELSE NotAString]

\* the next transmitted message reaches the browser
Arrive ==
    /\ arrived < Len(sent)
    /\ arrived' = arrived + 1
    /\ wire' = Append(wire, ToPage(sent[arrived + 1]))
    /\ UNCHANGED <<Session, active, parked, clientSocket, statusText, innerHTML,
                   pageBuffer, handled, rawText, processed, extracted>>

PageGone == clientSocket \in {"CLOSING", "CLOSED"}

\* the server's socket receives the close frame of the page
TeardownClosing == PageGone /\ PeerClosing

\* socket.on('close') after the page has closed its socket
TeardownClose == PageGone /\ SocketClose

InitTeardown ==
    /\ SessionInit
    /\ script \in TwoScripts
    /\ delimited
    /\ Alone
    /\ PageInit
    /\ wire = <<>>
    /\ AsideInit

NextTeardown ==
    \/ Connection
    \/ FetchResponds
    \/ FetchFails
    \/ FetchAborted
    \/ ErrorTextSettles
    \/ ReadChunk
    \/ ReadEnd
    \/ ReadFails
    \/ ReadAborted
    \/ Arrive
    \/ PageOpen
    \/ PageMessage
    \/ PageClose
    \/ PageError
    \/ TeardownClosing
    \/ TeardownClose

\* once the page's socket is closing, the close event of the server's socket
\* is emitted
SpecTeardown == InitTeardown /\ [][NextTeardown]_vars /\ WF_vars(TeardownClose)

(***************************************************************************)
(* processBuffer on its own: the buffer holds one raw event made of any    *)
(* units, or one data line with any document, then the delimiter and       *)
(* possibly one more delta frame.                                          *)
(***************************************************************************)
MaxUnits == 5

FrameUnits == {DataPrefix, SP, NL, "{delta:a}", DoneLiteral}
RawEvents == UNION {[1..n -> FrameUnits] : n \in 0..MaxUnits}
DocFrames ==
    {<<DataPrefix, SP, d>> : d \in JsonTexts \cup {DoneLiteral, "{oops", "null"}}
Follower == BlockText("delta_b") \o <<NL, NL>>
FrameTexts ==
    {h \o <<NL, NL>> \o f : h \in RawEvents \cup DocFrames, f \in {<<>>, Follower}}

\* const payload = rawEvent.split('\n')...join('\n'), for each raw event
PayloadsOf(fs) == [i \in DOMAIN fs |-> ExtractPayload(fs[i])]

Ran(r) ==
    /\ processed' = r
    /\ extracted' = PayloadsOf(r.frames)

\* processBuffer()
RunProcessBuffer ==
    /\ processed = NotProcessed
    /\ Ran(ProcessBuffer(rawText))
    /\ UNCHANGED <<Session, active, parked, Page, rawText, arrived>>

InitFrame ==
    /\ SessionInit
    /\ apiKey
    /\ script = <<>>
    /\ Alone
    /\ PageInit
    /\ wire = <<>>
    /\ rawText \in FrameTexts
    /\ processed = NotProcessed
    /\ extracted = <<>>
    /\ arrived = 0

NextFrame == RunProcessBuffer

SpecFrame == InitFrame /\ [][NextFrame]_vars

(***************************************************************************)
(* Vocabulary of the properties                                            *)
(***************************************************************************)
IsTerminal(m) == m.type \in {"done", "error"}
NoTerminal(ms) == \A i \in DOMAIN ms : ~IsTerminal(ms[i])
LastOf(ms) == ms[Len(ms)]
DonePayload == [type |-> "done"]

\* the data of the chunk messages of ms, in order
RECURSIVE ChunkData(_)
ChunkData(ms) ==
    IF ms = <<>> THEN <<>>
    ELSE (IF Head(ms).type = "chunk" THEN <<Head(ms).data>> ELSE <<>>)
         \o ChunkData(Tail(ms))

\* The session ended because of what the upstream body contained: by the
\* sentinel, by an error thrown for a frame, or by the end of the body (and
\* not by an abort, a broken connection or a failed request).
RanToEnd ==
    /\ pc = "settled"
    /\ \/ eof
       \/ completed
       \/ outcome = "rejected" /\ failure.name = "Error" /\ pos > 0

\* The blocks of the stream that are frames: bounded by the delimiter.
DelimitedBlocks ==
    IF delimited THEN script ELSE SubSeq(script, 1, Len(script) - 1)

(***************************************************************************)
(* C1: no chunk message is sent after a done or error message, and at most *)
(* one terminal message is sent: a terminal message, once sent, is the     *)
(* last message of the session.                                            *)
(***************************************************************************)
C1_NoPostTerminal ==
    /\ \A i \in DOMAIN sent : IsTerminal(sent[i]) => i = Len(sent)
    /\ \A i \in DOMAIN events : IsTerminal(events[i]) => i = Len(events)

\* a chunk was sent, then the error of an error frame, and upstream bytes
\* that were never read remain
C1_Witness ==
    /\ pc = "settled"
    /\ Len(sent) >= 2
    /\ sent[1].type = "chunk"
    /\ LastOf(sent).type = "error"
    /\ pos < Len(upstream)

(***************************************************************************)
(* C2: however the upstream bytes are split into reads, the session        *)
(* produces the events that delivering the whole body in one read          *)
(* produces.                                                               *)
(***************************************************************************)
\* the events of a session that gets the whole body in its first read
WholeAfterFlush(first, last) == first.payloads \o last.payloads
WholeAfterFirst(d, r, a) ==
    IF a.pc = "settled" THEN a.payloads
    ELSE WholeAfterFlush(a,
            AfterProcess(ProcessBuffer(r.buffer \o DecodeFlush(d.pending)), TRUE))
WholeProcessed(d, r) == WholeAfterFirst(d, r, AfterProcess(r, FALSE))
WholeDecoded(d) == WholeProcessed(d, ProcessBuffer(d.text))
WholeEvents(bytes) ==
    IF bytes = <<>> THEN AfterProcess(ProcessBuffer(<<>>), TRUE).payloads
    ELSE WholeDecoded(Decode(FALSE, bytes))

C2_ReassemblyIndependence ==
    RanToEnd =>
        /\ events = WholeEvents(upstream)
        /\ readyState = "OPEN" => sent = events

\* the body came in several reads and produced two chunks and a terminal
C2_Witness ==
    /\ RanToEnd
    /\ fragmented
    /\ readyState = "OPEN"
    /\ Len(sent) >= 3
    /\ pos = Len(upstream)

(***************************************************************************)
(* C3: when the body ends while the buffer holds text without a trailing   *)
(* delimiter and no sentinel was seen, that text is extracted as a final   *)
(* frame (so nothing is left in the buffer).                               *)
(***************************************************************************)
C3_TrailingFrameFlushed ==
    (eof /\ ~completed) => buffer = <<>>

(***************************************************************************)
(* C4: a frame whose decoded payload has type 'response.error' ends the    *)
(* session with one error message: it is the last frame classified, the    *)
(* promise is rejected with the embedded message (or the default one), and *)
(* that error is the one terminal event.                                   *)
(***************************************************************************)
IsErrorPayload(payload) ==
    payload \in {<<"{error:boom}">>, <<"{error}">>, <<"{error:returned}">>}

ErrorPayloadMessage(payload) ==
    IF payload = <<"{error:boom}">> THEN <<"boom">>
    ELSE IF payload = <<"{error:returned}">> THEN <<"OpenAPI service returned 500">>
    ELSE DefaultErrorMessage

C4_ErrorFrameTerminates ==
    \A i \in DOMAIN classified :
        IsErrorPayload(classified[i]) =>
            /\ i = Len(classified)
            /\ pc = "settled"
            /\ outcome = "rejected"
            /\ LastOf(events) =
                  [type |-> "error", message |-> ErrorPayloadMessage(classified[i])]

(***************************************************************************)
(* C5: a frame whose payload is exactly "[DONE]" ends the session as Done: *)
(* it is the last frame ever extracted or classified, the promise is       *)
(* resolved, no read follows, the end-of-stream flush does not run, and    *)
(* the one message after it is done.                                       *)
(***************************************************************************)
SentinelClassified == \E i \in DOMAIN classified : classified[i] = <<DoneLiteral>>

C5_SentinelEnds ==
    SentinelClassified =>
        /\ LastOf(classified) = <<DoneLiteral>>
        /\ \A i \in DOMAIN classified :
              classified[i] = <<DoneLiteral>> => i = Len(classified)
        /\ ExtractPayload(LastOf(frames)) = <<DoneLiteral>>
        /\ completed
        /\ pc = "settled"
        /\ outcome = "resolved"
        /\ ~eof
        /\ LastOf(events) = DonePayload
        /\ \A i \in DOMAIN events : IsTerminal(events[i]) => i = Len(events)
        /\ readyState = "OPEN" => sent = events

C5_SentinelFinal ==
    SentinelClassified =>
        /\ UNCHANGED <<pos, buffer, frames, classified, events, sent, pc, outcome>>

\* C5: the sentinel ends the session as Done, and nothing follows it
C5_SentinelHandling == [](C5_SentinelEnds) /\ [][C5_SentinelFinal]_vars

\* the sentinel was handled while a complete frame was still in the buffer
C5_Witness ==
    /\ completed
    /\ IndexOfDelimiter(buffer) # 0
    /\ LastOf(sent) = DonePayload

RECURSIVE DeltasOf(_)
DeltasOf(blocks) ==
    IF blocks = <<>> THEN <<>>
    ELSE (IF BlockKind(Head(blocks)) = "delta"
          THEN <<BlockDelta(Head(blocks))>> ELSE <<>>)
         \o DeltasOf(Tail(blocks))

HasKind(blocks, kinds) == \E i \in DOMAIN blocks : BlockKind(blocks[i]) \in kinds

C7_MalformedTolerated ==
    /\ failure.name # "SyntaxError"
    /\ (/\ eof
        /\ HasKind(DelimitedBlocks, {"malformed"})
        /\ ~HasKind(DelimitedBlocks, {"sentinel", "error"}))
       => /\ events = ChunkPayloads(DeltasOf(DelimitedBlocks)) \o <<DonePayload>>
          /\ outcome = "resolved"

\* a malformed frame, then a delta frame: the delta was forwarded
C7_Witness ==
    /\ eof
    /\ script = <<"malformed", "delta_a">>
    /\ delimited
    /\ fragmented
    /\ sent = <<[type |-> "chunk", data |-> "a"], DonePayload>>

(***************************************************************************)
(* C8: while the peer stays open, the chunk messages sent are exactly the  *)
(* texts of the delta frames that precede the first terminal frame         *)
(* (sentinel or explicit error) of the stream, one per frame, in order.    *)
(***************************************************************************)
RECURSIVE BeforeFirstTerminal(_)
BeforeFirstTerminal(blocks) ==
    IF blocks = <<>> THEN <<>>
    ELSE IF BlockKind(Head(blocks)) \in {"sentinel", "error"} THEN <<>>
    ELSE <<Head(blocks)>> \o BeforeFirstTerminal(Tail(blocks))

C8_OrderedExactlyOnce ==
    (RanToEnd /\ readyState = "OPEN") =>
        ChunkData(sent) = DeltasOf(BeforeFirstTerminal(DelimitedBlocks))

(***************************************************************************)
(* C9: a payload is transmitted only when the socket is OPEN at the moment *)
(* of the send; otherwise it is dropped and never sent later, and the      *)
(* session goes on: what is transmitted is always what was handed to       *)
(* sendPayload up to the moment the socket left OPEN.                      *)
(***************************************************************************)
Handed == SubSeq(events', Len(events) + 1, Len(events'))

C9_SendStep ==
    /\ readyState = "OPEN" => sent' = sent \o Handed
    /\ readyState # "OPEN" => sent' = sent
    /\ (readyState # "OPEN" /\ Handed # <<>> /\ NoTerminal(Handed))
          => (pc' = "reading" /\ outcome' = "pending")

\* C9: every step transmits exactly what sendPayload was handed while OPEN
C9_BestEffortSend == [][C9_SendStep]_vars

\* the socket is CLOSING, the close event has not fired: a chunk was dropped
\* and the session is still reading
C9_Witness ==
    /\ readyState = "CLOSING"
    /\ ~aborted
    /\ pc = "reading"
    /\ Len(events) > Len(sent)
    /\ LastOf(events).type = "chunk"

(***************************************************************************)
(* C10: when the response is not successful or has no body, the session    *)
(* never reads the body and sends exactly one message, an error that       *)
(* embeds the status.                                                      *)
(***************************************************************************)
Embeds(message, unit) == \E i \in DOMAIN message : message[i] = unit

OneRequestError(ms) ==
    /\ Len(ms) = 1
    /\ ms[1].type = "error"
    /\ Embeds(ms[1].message, response.status)

\* the response is not successful or has no body
BadResponse == response # NoResponse /\ (~response.ok \/ ~response.body)

NeverRead == pos = 0 /\ frames = <<>> /\ ~eof /\ pc # "reading"

C10_RequestFailure ==
    BadResponse =>
        /\ NeverRead
        /\ pc = "settled" => OneRequestError(sent)

\* C10 as amended: the one error message is handed to sendPayload, which
\* transmits it if the socket is still OPEN and drops it otherwise.
C10_RequestFailureWhileOpen ==
    BadResponse =>
        /\ NeverRead
        /\ pc \in {"errorText", "settled"}
        /\ pc = "errorText" => (events = <<>> /\ sent = <<>>)
        /\ pc = "settled" =>
              /\ OneRequestError(events)
              /\ outcome = "rejected"
              /\ readyState = "OPEN" => sent = events
              /\ readyState # "OPEN" => sent \in {<<>>, events}

\* status 429 with a readable body: one error message with status and body
C10_Witness ==
    /\ pc = "settled"
    /\ response.status = "429"
    /\ Len(sent) = 1
    /\ sent[1].type = "error"
    /\ Embeds(sent[1].message, "429")
    /\ Embeds(sent[1].message, "rate limited")

(***************************************************************************)
(* C11  Configuration failure: without the credential the session fails    *)
(* before any upstream request is issued, and the peer receives exactly    *)
(* one message, of type error, and no chunk or done.                       *)
(***************************************************************************)
ConfigError == [type |-> "error", message |-> ConfigErrorMessage]

C11_ConfigurationFailure ==
    ~apiKey =>
        /\ pc \in {"idle", "settled"}
        /\ response = NoResponse
        /\ NeverRead
        /\ pendingReads = 0
        /\ pc = "idle" => sent = <<>>
        /\ pc = "settled" =>
              /\ outcome = "rejected"
              /\ events = <<ConfigError>>
              /\ sent = <<ConfigError>>

C11_Witness ==
    /\ ~apiKey
    /\ pc = "settled"
    /\ sent = <<ConfigError>>
    /\ readyState = "CLOSED"

(***************************************************************************)
(* C12  Completion closes upstream.  As stated: the step that transmits    *)
(* the terminal message also sets the session's cancellation token.        *)
(***************************************************************************)
TerminalStep == NoTerminal(sent) /\ ~NoTerminal(sent')

C13_AbortStep ==
    /\ (pc = "reading" /\ readyState # "CLOSED" /\ readyState' = "CLOSED") => aborted'
    /\ aborted =>
          /\ sent' = sent
          /\ pos' = pos
          /\ frames' = frames
          /\ pendingReads' <= pendingReads
    /\ (aborted /\ pc = "reading" /\ pc' # "reading") =>
          /\ pc' = "settled"
          /\ outcome' = "resolved"
          /\ failure' = NoError
          /\ pendingReads' = 0

C13_AbortTransition == [][C13_AbortStep]_vars

C13_Witness ==
    /\ aborted
    /\ pc = "settled"
    /\ outcome = "resolved"
    /\ 0 < pos /\ pos < Len(upstream)
    /\ ~completed
    /\ sent # <<>>

(***************************************************************************)
(* C14  Cancellation source and monotonicity: the token only goes from     *)
(* unset to set, and the step that sets it is the socket's close           *)
(* notification, which every close notification does; no step of the       *)
(* upstream stream sets it.                                                *)
(***************************************************************************)
C14_TokenStep ==
    /\ aborted => aborted'
    /\ (~aborted /\ aborted') =>
          /\ readyState # "CLOSED"
          /\ readyState' = "CLOSED"
          /\ UNCHANGED <<StreamState, ReaderState, response, pc, outcome, events, sent>>
    /\ (readyState # "CLOSED" /\ readyState' = "CLOSED") => aborted'

C14_CancellationSource == [][C14_TokenStep]_vars

C14_Witness ==
    /\ aborted
    /\ readyState = "CLOSED"
    /\ pc = "reading"
    /\ pos > 0

(***************************************************************************)
(* C16  Backpressure: at most one upstream read is outstanding, and a read *)
(* is outstanding only when no frame can be extracted from the buffer and  *)
(* the chunk of every classified payload has been handed to sendPayload.   *)
(***************************************************************************)
\* the chunks that classifying the payloads ps produces, in order
RECURSIVE ClassifiedChunks(_)
ClassifiedChunks(ps) ==
    IF ps = <<>> THEN <<>>
    ELSE (IF IsSentinel(Head(ps)) THEN <<>> ELSE Classify(Head(ps)).chunk)
         \o ClassifiedChunks(Tail(ps))

NoCompleteFrame(buf) == IndexOfDelimiter(buf) = 0

C16_Backpressure ==
    /\ pendingReads \in {0, 1}
    /\ pendingReads = 1 <=> pc = "reading"
    /\ pendingReads = 1 =>
          /\ NoCompleteFrame(buffer)
          /\ NoTerminal(events)
          /\ ChunkData(events) = ClassifiedChunks(classified)

\* a read is awaited after a frame was extracted and its chunk handed over
C16_Witness ==
    /\ pendingReads = 1
    /\ Len(frames) = 1
    /\ Len(events) = 1
    /\ buffer = <<>>
    /\ pos < Len(upstream)

(***************************************************************************)
(* C17  StreamBuffer invariant.  As stated: whenever a read is awaited and *)
(* when the session has ended, the buffer holds no complete frame.         *)
(***************************************************************************)
C17_NoFrameLeft ==
    pc \in {"reading", "settled"} => NoCompleteFrame(buffer)

\* the frames extracted so far, each followed by its delimiter
RECURSIVE Glue(_)
Glue(fs) ==
    IF fs = <<>> THEN <<>> ELSE Head(fs) \o <<NL, NL>> \o Glue(Tail(fs))

\* the text the decoder has produced from the bytes read so far
DecodedSoFar ==
    Decode(FALSE, SubSeq(upstream, 1, pos)).text
    \o (IF eof THEN DecodeFlush(Decode(FALSE, upstream).pending) ELSE <<>>)

\* C17 as the code has it: whenever a read is awaited, and when the body
\* was read to its end, the buffer holds no delimiter; a buffer that still
\* holds a complete frame belongs to a session ended by the sentinel or by
\* an error thrown in processBuffer; the frames extracted, in order, and
\* the buffer make up exactly the text decoded so far.
C17_BufferInvariant ==
    /\ (pc = "reading" \/ eof) => NoCompleteFrame(buffer)
    /\ ~NoCompleteFrame(buffer) =>
          /\ pc = "settled"
          /\ completed \/ (outcome = "rejected" /\ failure.name = "Error")
    /\ \A i \in DOMAIN frames : NoCompleteFrame(frames[i])
    /\ Glue(frames) \o buffer = DecodedSoFar

\* a read is awaited with one frame extracted and an incomplete one buffered
C17_Witness ==
    /\ pc = "reading"
    /\ Len(frames) = 1
    /\ buffer # <<>>
    /\ pos < Len(upstream)

(***************************************************************************)
(* C19  Downstream wire format: every message transmitted is a chunk with  *)
(* a string data field, a bare done, or an error with a string message     *)
(* field; each is one of the payloads handed to sendPayload, in order,     *)
(* and with an open socket every payload handed over is one message.       *)
(***************************************************************************)
WireShape(m) ==
    \/ DOMAIN m = {"type", "data"} /\ m.type = "chunk" /\ m.data \in STRING
    \/ DOMAIN m = {"type"} /\ m.type = "done"
    \/ DOMAIN m = {"type", "message"} /\ m.type = "error" /\ m.message \in Seq(STRING)

C19_WireFormat ==
    /\ \A i \in DOMAIN sent : WireShape(sent[i])
    /\ Len(sent) <= Len(events)
    /\ sent = SubSeq(events, 1, Len(sent))
    /\ readyState = "OPEN" => sent = events

\* the three shapes occur: two chunks and a done in one session, and an
\* error after a chunk in another
C19_Witness ==
    /\ Len(sent) = 3
    /\ sent[1].type = "chunk"
    /\ sent[2].type = "chunk"
    /\ sent[3].type \in {"done", "error"}

(***************************************************************************)
(* C15  Session isolation: with two connections at once, a step of one     *)
(* session (its disconnect, error or sentinel included) changes nothing of *)
(* the other: when the other session runs again its buffer, token and      *)
(* messages are what they were when it last ran, and each session produces *)
(* what it produces alone.                                                 *)
(***************************************************************************)
C15_IsolationStep ==
    /\ active' = active => parked' = parked
    /\ active' # active => (parked' = Saved /\ Saved' = parked)

C15_AsAlone ==
    /\ RanToEnd => events = WholeEvents(upstream)
    /\ aborted => readyState = "CLOSED"
    /\ sent = SubSeq(events, 1, Len(sent))
    /\ Glue(frames) \o buffer = DecodedSoFar

C15_SessionIsolation == [](C15_AsAlone) /\ [][C15_IsolationStep]_vars

\* one session was disconnected and has ended; the other is in the middle of
\* its stream with an open socket
C15_Witness ==
    /\ parked.pc = "settled"
    /\ parked.aborted
    /\ parked.buffer # <<>>
    /\ pc = "reading"
    /\ ~aborted
    /\ buffer # <<>>
    /\ buffer # parked.buffer
    /\ sent # <<>>

(***************************************************************************)
(* C18  Client finalisation: once the page has handled a done message, no  *)
(* later event changes the status text or the content element, the close   *)
(* of the socket included; once it has handled an error message the        *)
(* content element shows the HTML-escaped error message.                   *)
(***************************************************************************)
DoneHandled ==
    \E i \in DOMAIN handled : handled[i].parses /\ handled[i].type = "done"
ErrorHandled(m) == m.parses /\ m.type = "error" /\ IsStringValue(m.message)

C18_ErrorShown ==
    \A i \in DOMAIN handled :
        ErrorHandled(handled[i]) => innerHTML = ErrorMarkup(handled[i].message)

C18_ClientFinalisation ==
    /\ [][DoneHandled => (statusText' = statusText /\ innerHTML' = innerHTML)]_vars
    /\ [](C18_ErrorShown)

(***************************************************************************)
(* C20  Client accumulation: as long as no error message was handled, the  *)
(* markup of the content element is the concatenation, in arrival order,   *)
(* of the data of the chunk messages handled so far.                       *)
(***************************************************************************)
RECURSIVE ChunkConcat(_)
ChunkConcat(ms) ==
    IF ms = <<>> THEN <<>>
    ELSE (IF Head(ms).parses /\ Head(ms).type = "chunk" /\ IsStringValue(Head(ms).data)
          THEN Head(ms).data ELSE <<>>)
         \o ChunkConcat(Tail(ms))

C20_ClientAccumulation ==
    (\A i \in DOMAIN handled : ~ErrorHandled(handled[i])) =>
        innerHTML = ChunkConcat(handled)

\* two chunks with text were handled, the second one appended to the first
C20_Witness ==
    /\ Len(handled) = 2
    /\ handled[1].type = "chunk" /\ handled[1].data = <<"a">>
    /\ handled[2].type = "chunk" /\ handled[2].data = <<"<", "b", ">">>
    /\ innerHTML = <<"a", "<", "b", ">">>

(***************************************************************************)
(* Payload extraction as the claims word it, written without the           *)
(* operators of the model: lines are cut at line breaks by a scan, and     *)
(* white space is removed by position.                                     *)
(***************************************************************************)
RECURSIVE RefLinesFrom(_, _)
RefLinesFrom(s, line) ==
    IF s = <<>> THEN <<line>>
    ELSE IF Head(s) = NL THEN <<line>> \o RefLinesFrom(Tail(s), <<>>)
    ELSE RefLinesFrom(Tail(s), Append(line, Head(s)))
RefLines(s) == RefLinesFrom(s, <<>>)

RefInk(line) == {i \in DOMAIN line : line[i] # SP}
RefTrimmed(line) ==
    IF RefInk(line) = {} THEN <<>>
    ELSE SubSeq(line, CHOOSE i \in RefInk(line) : \A j \in RefInk(line) : i <= j,
                      CHOOSE i \in RefInk(line) : \A j \in RefInk(line) : i >= j)

RECURSIVE RefJoin(_)
RefJoin(lines) ==
    IF lines = <<>> THEN <<>>
    ELSE IF Len(lines) = 1 THEN lines[1]
    ELSE RefJoin(SubSeq(lines, 1, Len(lines) - 1)) \o <<NL>> \o lines[Len(lines)]

\* lines beginning with the prefix, less the prefix and one following space
ClaimedLine(line) ==
    IF Len(line) > 1 /\ line[2] = SP THEN SubSeq(line, 3, Len(line))
    ELSE SubSeq(line, 2, Len(line))
RECURSIVE ClaimedLines(_)
ClaimedLines(lines) ==
    IF lines = <<>> THEN <<>>
    ELSE (IF Head(lines) # <<>> /\ Head(lines)[1] = DataPrefix
          THEN <<ClaimedLine(Head(lines))>> ELSE <<>>)
         \o ClaimedLines(Tail(lines))
ClaimedPayload(rawEvent) == RefJoin(ClaimedLines(RefLines(rawEvent)))

\* trimmed lines beginning with the prefix, less the prefix and all the
\* white space after it
RECURSIVE TrimmedLines(_)
TrimmedLines(lines) ==
    IF lines = <<>> THEN <<>>
    ELSE (IF RefTrimmed(Head(lines)) # <<>> /\ RefTrimmed(Head(lines))[1] = DataPrefix
          THEN <<RefTrimmed(Tail(RefTrimmed(Head(lines))))>> ELSE <<>>)
         \o TrimmedLines(Tail(lines))
TrimmedPayload(rawEvent) == RefJoin(TrimmedLines(RefLines(rawEvent)))

\* the raw event in front of the first blank line of rawText, when what
\* comes after that blank line is nothing or the delta frame
BlankLines(s) == {i \in 1..(Len(s) - 1) : s[i] = NL /\ s[i + 1] = NL}
FirstEvent ==
    SubSeq(rawText, 1,
           (CHOOSE i \in BlankLines(rawText) : \A j \in BlankLines(rawText) : i <= j) - 1)
HeadEvent(h) == rawText \in {h \o <<NL, NL>>, h \o <<NL, NL>> \o Follower}
HasFollower == Len(rawText) > Len(Follower)
                 /\ SubSeq(rawText, Len(rawText) - Len(Follower) + 1, Len(rawText)) = Follower

(***************************************************************************)
(* C21  Empty-payload frames: a frame with no data line, or whose data     *)
(* lines are empty once stripped, is discarded: it yields no chunk, does   *)
(* not end or fail the session, and the delta frame after it is processed  *)
(* as usual.                                                               *)
(***************************************************************************)
C21_EmptyFrameDiscarded ==
    (/\ processed # NotProcessed
     /\ HeadEvent(FirstEvent)
     /\ TrimmedPayload(FirstEvent) = <<>>) =>
        /\ processed.frames[1] = FirstEvent
        /\ ~processed.thrown
        /\ ~processed.completed
        /\ processed.classified = (IF HasFollower THEN <<<<"{delta:b}">>>> ELSE <<>>)
        /\ processed.chunks = (IF HasFollower THEN <<"b">> ELSE <<>>)
        /\ processed.buffer = <<>>

\* a frame with an empty data line and a line that is no data line, then a
\* delta frame whose chunk was produced
C21_Witness ==
    /\ processed # NotProcessed
    /\ rawText = <<DataPrefix, SP, NL, DoneLiteral, NL, NL>> \o Follower
    /\ processed.chunks = <<"b">>

(***************************************************************************)
(* C22  Payload extraction.  As stated: only lines that begin with the     *)
(* prefix contribute, the prefix and one following space are stripped,     *)
(* and the results are joined with one line break, in order.               *)
(***************************************************************************)
C22_OneSpaceStripped ==
    processed # NotProcessed =>
        \A i \in DOMAIN extracted : extracted[i] = ClaimedPayload(processed.frames[i])

\* C22 as the code has it: each line is trimmed first; the trimmed lines
\* that begin with the prefix contribute, less the prefix and all the white
\* space that follows it; the results are joined with one line break, in
\* order.
C22_WhitespaceStripped ==
    processed # NotProcessed =>
        /\ Len(extracted) = Len(processed.frames)
        /\ \A i \in DOMAIN extracted :
              extracted[i] = TrimmedPayload(processed.frames[i])

\* two data lines, the first indented and with two spaces after the prefix
C22_Witness ==
    /\ processed # NotProcessed
    /\ processed.frames[1] = <<SP, DataPrefix, SP, SP, "{delta:a}">>
    /\ extracted[1] = <<"{delta:a}">>

(***************************************************************************)
(* C23  Unknown shapes are ignored: a frame whose payload is JSON but      *)
(* neither a delta nor an explicit error hands nothing to the socket and   *)
(* leaves the session awaiting the next read; a stream with such a frame   *)
(* and no terminal frame, read to its end, yields the deltas of its other  *)
(* frames, in order, and then done.                                        *)
(***************************************************************************)
UnknownPayload == <<"{created}">>

C23_UnknownStep ==
    (classified' = Append(classified, UnknownPayload) /\ ~eof') =>
        /\ pc' = "reading"
        /\ outcome' = "pending"
        /\ events' = events
        /\ sent' = sent

C23_UnknownStream ==
    (/\ eof
     /\ HasKind(DelimitedBlocks, {"unknown"})
     /\ ~HasKind(DelimitedBlocks, {"sentinel", "error"}))
    => /\ events = ChunkPayloads(DeltasOf(DelimitedBlocks)) \o <<DonePayload>>
       /\ outcome = "resolved"

C23_UnknownIgnored == [](C23_UnknownStream) /\ [][C23_UnknownStep]_vars

\* an unknown frame, then a delta frame whose chunk was sent
C23_Witness ==
    /\ eof
    /\ script = <<"unknown", "delta_a">>
    /\ delimited
    /\ classified = <<UnknownPayload, <<"{delta:a}">>>>
    /\ sent = <<[type |-> "chunk", data |-> "a"], DonePayload>>

(***************************************************************************)
(* C24  End of stream without sentinel: when the body of a stream that     *)
(* has no sentinel and no error frame has ended and the peer is still      *)
(* open, the session has resolved and what was sent is the chunks of the   *)
(* delta frames, in order, and then exactly one done, as after a sentinel. *)
(***************************************************************************)
Count(ms, type) == Cardinality({i \in DOMAIN ms : ms[i].type = type})

C24_EndOfStreamIsDone ==
    (/\ eof
     /\ ~HasKind(script, {"sentinel", "error"})
     /\ readyState = "OPEN")
    => /\ pc = "settled"
       /\ outcome = "resolved"
       /\ ~completed
       /\ sent # <<>>
       /\ LastOf(sent) = DonePayload
       /\ Count(sent, "done") = 1
       /\ Count(sent, "error") = 0
       /\ ChunkData(sent) = DeltasOf(DelimitedBlocks)

\* two delta frames and the end of the body: two chunks, then done
C24_Witness ==
    /\ eof
    /\ ~completed
    /\ script = <<"choices", "text">>
    /\ delimited
    /\ readyState = "OPEN"
    /\ Len(sent) = 3

(***************************************************************************)
(* C25  Eventual termination: if the peer stays connected and the upstream *)
(* fails to open, delivers a sentinel frame, delivers an explicit error    *)
(* frame or reaches its end, then eventually the session has settled with  *)
(* exactly one terminal message sent and no read outstanding.              *)
(***************************************************************************)
FrameOfKind(kinds) ==
    \E i \in DOMAIN frames :
        \E b \in BlockNames : BlockKind(b) \in kinds /\ frames[i] = BlockText(b)

FailedToOpen ==
    \/ BadResponse
    \/ pc = "settled" /\ failure.name = "TypeError" /\ response = NoResponse

UpstreamOutcome ==
    \/ FailedToOpen
    \/ FrameOfKind({"sentinel"})
    \/ FrameOfKind({"error"})
    \/ eof

Terminated ==
    /\ pc = "settled"
    /\ pendingReads = 0
    /\ Count(sent, "done") + Count(sent, "error") = 1

C25_EventualTermination ==
    ([](readyState = "OPEN") /\ <>UpstreamOutcome) => <>[]Terminated

(***************************************************************************)
(* C26  Disconnect while connecting: when the socket's close notification  *)
(* comes while the upstream request is pending, the request is aborted:    *)
(* the only way on is the rejection with AbortError, no response is        *)
(* obtained, no read of a body is ever issued and no message of any type   *)
(* is handed to the socket or sent.                                        *)
(***************************************************************************)
ClosedWhileConnecting ==
    \/ pc = "fetching" /\ aborted
    \/ pc = "settled" /\ failure.name = "AbortError" /\ response = NoResponse

C26_Silent ==
    ClosedWhileConnecting =>
        /\ response = NoResponse
        /\ NeverRead
        /\ pendingReads = 0
        /\ ~readerLocked
        /\ events = <<>>
        /\ sent = <<>>

C26_AbortedStep ==
    (pc = "fetching" /\ aborted /\ pc' # "fetching") =>
        /\ pc' = "settled"
        /\ outcome' = "rejected"
        /\ failure'.name = "AbortError"

C26_DisconnectWhileConnecting == [](C26_Silent) /\ [][C26_AbortedStep]_vars

\* the request was aborted after the close notification and nothing was sent
C26_Witness ==
    /\ pc = "settled"
    /\ aborted
    /\ failure.name = "AbortError"
    /\ response = NoResponse
    /\ sent = <<>>

(***************************************************************************)
(* C27  One event per frame: a frame gives at most one outcome, that of    *)
(* the first branch it matches in the order sentinel, typed delta, choices *)
(* delta, content field, text field, explicit error: one chunk, or the end *)
(* of the session, or nothing; never a chunk together with a terminal      *)
(* outcome, never two chunks.                                              *)
(***************************************************************************)
\* the payloads whose first matching branch is known, and that branch
BranchOf(d) ==
    CASE d = DoneLiteral -> "sentinel"
      [] d \in {"{delta:a}", "{delta:b}", "{delta:a,content:d}"} -> "typed delta"
      [] d \in {"{choices:c}", "{choices:c,text:e}", "{choices:[{}],text:e}"} -> "choices delta"
      [] d \in {"{content:d}", "{content:d,text:e}", "{error,content:d}"} -> "content field"
      [] d \in {"{text:e}", "{choices:[]}", "{error:boom,text:e}"} -> "text field"
      [] d \in {"{error:boom}", "{error}", "{error:returned}"} -> "explicit error"
      [] OTHER -> "none"

\* the chunk that branch produces for the payload
ChunkOf(d) ==
    CASE d \in {"{delta:a}", "{delta:a,content:d}"} -> <<"a">>
      [] d = "{delta:b}" -> <<"b">>
      [] d \in {"{choices:c}", "{choices:c,text:e}"} -> <<"c">>
      [] d \in {"{content:d}", "{content:d,text:e}", "{error,content:d}"} -> <<"d">>
      [] d \in {"{text:e}", "{choices:[]}", "{error:boom,text:e}"} -> <<"e">>
      [] OTHER -> <<>>

OneDataLine ==
    /\ HeadEvent(FirstEvent)
    /\ Len(FirstEvent) = 3
    /\ FirstEvent[1] = DataPrefix
    /\ FirstEvent[2] = SP
    /\ FirstEvent[3] \notin {DataPrefix, SP, NL}

GoesOn == ~processed.thrown /\ ~processed.completed

FirstBranchOutcome(d) ==
    /\ processed.completed <=> BranchOf(d) = "sentinel"
    /\ processed.thrown => BranchOf(d) = "explicit error"
    /\ (processed.thrown \/ processed.completed) => processed.chunks = <<>>
    /\ GoesOn =>
          processed.chunks = ChunkOf(d) \o (IF HasFollower THEN <<"b">> ELSE <<>>)

C27_OneEventPerFrame ==
    processed # NotProcessed =>
        /\ Len(processed.chunks) <= Len(processed.classified)
        /\ (processed.thrown \/ processed.completed) =>
              Len(processed.chunks) < Len(processed.classified)
        /\ OneDataLine => FirstBranchOutcome(FirstEvent[3])

\* a payload that is a typed delta and has a content field: one chunk, the
\* delta, and the frame after it gives the next chunk
C27_Witness ==
    /\ processed # NotProcessed
    /\ rawText = <<DataPrefix, SP, "{delta:a,content:d}", NL, NL>> \o Follower
    /\ processed.chunks = <<"a", "b">>

(***************************************************************************)
(* C28  End-to-end teardown: once the page has handled a terminal message  *)
(* its socket is closing or closed, nothing more is sent on the socket or  *)
(* handled by the page, and the close handler of the server eventually     *)
(* sets the session's cancellation token.                                  *)
(***************************************************************************)
TerminalHandled ==
    \E i \in DOMAIN handled : handled[i].type \in {"done", "error"}

C28_ClientCloses == TerminalHandled => clientSocket \in {"CLOSING", "CLOSED"}

C28_NothingAfter ==
    TerminalHandled => (sent' = sent /\ events' = events /\ handled' = handled)

C28_Teardown ==
    /\ [](C28_ClientCloses)
    /\ [][C28_NothingAfter]_vars
    /\ (TerminalHandled ~> (aborted /\ readyState = "CLOSED"))

\* a chunk and done were handled by the page, and the token is set
C28_Witness ==
    /\ Len(handled) = 2
    /\ handled[1].type = "chunk"
    /\ handled[2].type = "done"
    /\ innerHTML = <<"a">>
    /\ clientSocket = "CLOSED"
    /\ aborted

====
